---- MODULE Spec2Model ----
(***************************************************************************)
(* N-gram string distance of dbms/src/Functions/FunctionsStringSimilarity  *)
(* (NgramDistanceImpl): the two code point readers, the needle             *)
(* accumulator, the haystack scorer and the two drivers constant_constant  *)
(* and vector_constant.                                                    *)
(*                                                                         *)
(* Conventions.                                                            *)
(*  - A byte string is a sequence of runs [b |-> byte, n |-> count]; the   *)
(*    bytes are those of the runs one after the other.  Short strings are  *)
(*    runs of length 1, long ones keep TLC's states small.                 *)
(*  - Indexes into strings, buffers and the window are 0-based as in the   *)
(*    source; a window cp is a TLA+ sequence and cp[k + 1] is cp[k] of the *)
(*    source.                                                              *)
(*  - A size_t is kept as its residue modulo 2^64 written in               *)
(*    [-2^63, 2^63): TLC's integers are narrower than 64 bits, every value *)
(*    the program reaches here is within 2^31 of 0 modulo 2^64, and + and  *)
(*    - on such residues are the wrapping + and - of the machine.          *)
(*    Comparisons go through ULess / ULeq / UMax.                          *)
(*  - A UInt32 code point is the tuple of its four bytes, low byte first.  *)
(***************************************************************************)
EXTENDS Integers, Sequences, FiniteSets, Bags, TLC

\* ------------------------------------------------------------------------
\* Program constants
\* ------------------------------------------------------------------------
map_size == 65536

max_string_size == 32768

default_padding == 16

small_buffer_size == 256

\* The four instantiations of NgramDistanceImpl<N, CodePoint, UTF8, CaseInsensitive>.
Modes ==
  { [N |-> 4, UTF8 |-> FALSE, CaseInsensitive |-> FALSE],
    [N |-> 4, UTF8 |-> FALSE, CaseInsensitive |-> TRUE],
    [N |-> 3, UTF8 |-> TRUE,  CaseInsensitive |-> FALSE],
    [N |-> 3, UTF8 |-> TRUE,  CaseInsensitive |-> TRUE] }

simultaneously_codepoints_num(m) == default_padding + m.N - 1

\* ------------------------------------------------------------------------
\* Unsigned 64-bit comparisons on residues, 16-bit counters
\* ------------------------------------------------------------------------
ULess(a, b) == IF (a >= 0) = (b >= 0) THEN a < b ELSE b < 0

ULeq(a, b) == a = b \/ ULess(a, b)

UMax(a, b) == IF ULess(a, b) THEN b ELSE a

\* The counter read without the cast.
Int16Unsigned(v) == v

\* static_cast<Int16>(v) of a UInt16
Int16(v) == IF v >= 32768 THEN v - 65536 ELSE v

\* The table is all zero after memset; only the non-zero entries are kept.
ZeroStats == << >>

Stat(stats, h) == IF h \in DOMAIN stats THEN stats[h] ELSE 0

\* (TLC evaluates a function constructor lazily; @@ and \o with an empty
\* function make the value a plain one.)
PutStat(stats, h, v) ==
  IF v = 0
    THEN [k \in (DOMAIN stats) \ {h} |-> stats[k]] @@ << >>
    ELSE (h :> v) @@ stats

\* ngram_stats[h] += d in UInt16 arithmetic
AddStat(stats, h, d) == PutStat(stats, h, (Stat(stats, h) + d) % map_size)

\* ------------------------------------------------------------------------
\* Byte strings and buffers
\* ------------------------------------------------------------------------
RECURSIVE Size(_)
Size(s) == IF s = << >> THEN 0 ELSE Head(s).n + Size(Tail(s))

RECURSIVE ByteAt(_, _)
ByteAt(s, k) ==
  IF k < Head(s).n THEN Head(s).b ELSE ByteAt(Tail(s), k - Head(s).n)

\* A buffer: the bytes of chars, followed by readable bytes whose value is pad.
Mem(buf, k) == IF k < Size(buf.chars) THEN ByteAt(buf.chars, k) ELSE buf.pad

Lit(bytes) == [k \in 1..Len(bytes) |-> [b |-> bytes[k], n |-> 1]] \o << >>

Rep(byte, count) == IF count = 0 THEN << >> ELSE << [b |-> byte, n |-> count] >>

\* std::string::resize(size + default_padding): the new bytes are zero.
PaddedString(s) == [chars |-> s, pad |-> 0]

\* ------------------------------------------------------------------------
\* Hashes
\* ------------------------------------------------------------------------
HashModulus == 65521

\* intHashCRC32 of the integer whose bytes, low byte first, are bytes.
RECURSIVE intHashCRC32(_)
intHashCRC32(bytes) ==
  IF bytes = << >> THEN 0
  ELSE (intHashCRC32(Tail(bytes)) * 256 + Head(bytes)) % HashModulus

ASCIIHash(cp, i) ==
  intHashCRC32(<< cp[i + 1], cp[i + 2], cp[i + 3], cp[i + 4] >>) % 65536

UTF8Hash(cp, i) ==
  intHashCRC32(cp[i + 2] \o cp[i + 1] \o cp[i + 3]) % 65536

hash_functor(m, cp, i) == IF m.UTF8 THEN UTF8Hash(cp, i) ELSE ASCIIHash(cp, i)

\* ------------------------------------------------------------------------
\* Code point readers
\* ------------------------------------------------------------------------
roundUpToPowerOfTwoOrZero(n) ==
  IF n = 0 THEN 0 ELSE IF n = 1 THEN 1 ELSE IF n = 2 THEN 2 ELSE IF n <= 4 THEN 4 ELSE 8

ZeroCodePoint(m) == IF m.UTF8 THEN << 0, 0, 0, 0 >> ELSE 0

\* CodePoint cp[simultaneously_codepoints_num] = {};
ZeroWindow(m) == [k \in 1..simultaneously_codepoints_num(m) |-> ZeroCodePoint(m)] \o << >>

\* std::tolower in the C locale
tolower(c) == IF c >= 65 /\ c <= 90 THEN c + 32 ELSE c

\* The copy taken one unit further up the window.
CopyTailOffByOne(m, cp) ==
  [k \in 1..Len(cp) |->
     IF k <= roundUpToPowerOfTwoOrZero(m.N - 1)
       THEN cp[k + default_padding - m.N + 2]
       ELSE cp[k]] \o << >>

\* memcpy(code_points, code_points + default_padding - N + 1, roundUp(N - 1) units)
CopyTail(m, cp) ==
  [k \in 1..Len(cp) |->
     IF k <= roundUpToPowerOfTwoOrZero(m.N - 1)
       THEN cp[k + default_padding - m.N + 1]
       ELSE cp[k]] \o << >>

\* The lowering one position short of the last byte a full window hashes.
unrollLoweringShort(cp, Offset, count) ==
  [k \in 1..Len(cp) |->
     IF k - 1 >= Offset /\ k - 1 < Offset + count - 1 THEN tolower(cp[k]) ELSE cp[k]] \o << >>

\* ((cont[Offset + I] = std::tolower(cont[Offset + I])), ...) for I < count
unrollLowering(cp, Offset, count) ==
  [k \in 1..Len(cp) |->
     IF k - 1 >= Offset /\ k - 1 < Offset + count THEN tolower(cp[k]) ELSE cp[k]] \o << >>

readASCIICodePoints(m, code_points, buf, pos, end) ==
  LET padding_offset == default_padding - m.N + 1
      c1 == CopyTail(m, code_points)
      c2 == [k \in 1..Len(c1) |->
               IF k - 1 >= m.N - 1 /\ k - 1 < m.N - 1 + default_padding
                 THEN Mem(buf, pos + (k - 1) - (m.N - 1))
                 ELSE c1[k]] \o << >>
      c3 == IF m.CaseInsensitive
              THEN unrollLowering(c2, m.N - 1, padding_offset)
              ELSE c2
      p == pos + padding_offset
  IN  [cp |-> c3, pos |-> p,
       found |-> IF p > end THEN default_padding - (p - end) ELSE default_padding]

\* UTF8::seqLength: the length the leading byte declares.
seqLength(b) ==
  IF b < 192 THEN 1 ELSE IF b < 224 THEN 2 ELSE IF b < 240 THEN 3 ELSE 4

ClearBit5(b) == IF (b \div 32) % 2 = 1 THEN b - 32 ELSE b

\* The iteration without if (pos + length > end) length = end - pos.
UTF8UnitUnclamped(m, buf, pos, end) ==
  LET length == seqLength(Mem(buf, pos))
      copied == IF length \in {1, 2, 3} THEN length ELSE 4
      raw == [k \in 1..4 |-> IF k <= copied THEN Mem(buf, pos + k - 1) ELSE 0] \o << >>
      masked == IF length \in {2, 3, 4} THEN length ELSE 1
      res == IF m.CaseInsensitive
               THEN [k \in 1..4 |-> IF k <= masked THEN ClearBit5(raw[k]) ELSE raw[k]] \o << >>
               ELSE raw
  IN  [res |-> res, length |-> length, copied |-> copied]

\* One iteration of the while loop of readUTF8CodePoints: the unit made of
\* the bytes at pos, the clamped length and the number of bytes memcpy reads.
UTF8Unit(m, buf, pos, end) ==
  LET declared == seqLength(Mem(buf, pos))
      length == IF pos + declared > end THEN end - pos ELSE declared
      copied == IF length \in {1, 2, 3} THEN length ELSE 4
      raw == [k \in 1..4 |-> IF k <= copied THEN Mem(buf, pos + k - 1) ELSE 0] \o << >>
      masked == IF length \in {2, 3, 4} THEN length ELSE 1
      res == IF m.CaseInsensitive
               THEN [k \in 1..4 |-> IF k <= masked THEN ClearBit5(raw[k]) ELSE raw[k]] \o << >>
               ELSE raw
  IN  [res |-> res, length |-> length, copied |-> copied]

RECURSIVE UTF8Loop(_, _, _, _, _, _)
UTF8Loop(m, cp, num, buf, pos, end) ==
  IF num < default_padding /\ pos < end
    THEN LET u == UTF8Unit(m, buf, pos, end)
         IN  UTF8Loop(m, [cp EXCEPT ![num + 1] = u.res], num + 1, buf, pos + u.length, end)
    ELSE [cp |-> cp, pos |-> pos, found |-> num]

readUTF8CodePoints(m, code_points, buf, pos, end) ==
  UTF8Loop(m, CopyTail(m, code_points), m.N - 1, buf, pos, end)

\* dispatchSearcher: the reader of the mode
read_code_points(m, cp, buf, pos, end) ==
  IF m.UTF8 THEN readUTF8CodePoints(m, cp, buf, pos, end)
  ELSE readASCIICodePoints(m, cp, buf, pos, end)

\* Source bytes one call of readASCIICodePoints reads:
\* memcpy(code_points + (N - 1), pos, default_padding * sizeof(CodePoint))
ASCIISourceReads(pos) == pos .. (pos + default_padding - 1)

\* Source bytes one call of readUTF8CodePoints reads: *pos and the bytes of
\* memcpy(&res, pos, ...) of every iteration of its loop.
RECURSIVE UTF8SourceReads(_, _, _, _, _)
UTF8SourceReads(m, num, buf, pos, end) ==
  IF num < default_padding /\ pos < end
    THEN LET u == UTF8Unit(m, buf, pos, end)
         IN  {pos} \cup (pos .. (pos + u.copied - 1))
               \cup UTF8SourceReads(m, num + 1, buf, pos + u.length, end)
    ELSE {}

SourceReads(m, buf, pos, end) ==
  IF m.UTF8 THEN UTF8SourceReads(m, m.N - 1, buf, pos, end) ELSE ASCIISourceReads(pos)

\* Window indexes one reader call reads or writes: both ends of the tail
\* copy and the positions filled from the source.
WindowAccesses(m) ==
  LET copied == roundUpToPowerOfTwoOrZero(m.N - 1)
      from == default_padding - m.N + 1
  IN  (0 .. (copied - 1)) \cup (from .. (from + copied - 1))
        \cup IF m.UTF8 THEN (m.N - 1) .. (default_padding - 1)
              ELSE (m.N - 1) .. (m.N - 1 + default_padding - 1)

\* Window indexes hash_functor(cp + at) reads
HashAccesses(m, at) == at .. (at + m.N - 1)

\* ------------------------------------------------------------------------
\* calculateNeedleStats, one loop step at a time
\* ------------------------------------------------------------------------
\* The entry with len initialised to -N instead of -N + 1.
NeedleEnterShortLen(m, buf, data, size) ==
  IF size < m.N
    THEN [done |-> TRUE, start |-> data, end |-> data + size, cp |-> ZeroWindow(m),
          found |-> 0, i |-> 0, len |-> 0]
    ELSE LET r == read_code_points(m, ZeroWindow(m), buf, data, data + size)
         IN  [done |-> FALSE, start |-> r.pos, end |-> data + size, cp |-> r.cp,
              found |-> r.found, i |-> m.N - 1,
              len |-> (0 - m.N) + (r.found - m.N + 1)]

\* From the entry to the first evaluation of the inner loop condition.
NeedleEnter(m, buf, data, size) ==
  IF size < m.N
    THEN [done |-> TRUE, start |-> data, end |-> data + size, cp |-> ZeroWindow(m),
          found |-> 0, i |-> 0, len |-> 0]
    ELSE LET r == read_code_points(m, ZeroWindow(m), buf, data, data + size)
         IN  [done |-> FALSE, start |-> r.pos, end |-> data + size, cp |-> r.cp,
              found |-> r.found, i |-> m.N - 1,
              len |-> (1 - m.N) + (r.found - m.N + 1)]

\* The loop going on to a window whose last unit is at index found.
InnerLoopRunsPast(m, at, found) == at + m.N <= found + 1

\* for (; i + N <= found; ++i)
InnerLoopRuns(m, at, found) == at + m.N <= found

\* ++ngram_stats[hash_functor(cp + i)]
NeedleNgramStats(m, f, stats) == AddStat(stats, hash_functor(m, f.cp, f.i), 1)

\* ++i
NeedleNgramFrame(f) == [f EXCEPT !.i = f.i + 1]

\* i = 0; } while (start < end && (found = read_code_points(cp, start, end)));
\* and, when the loop goes on, len += found - N + 1.
NeedleLoopEndFrame(m, buf, f) ==
  IF f.start < f.end
    THEN LET r == read_code_points(m, f.cp, buf, f.start, f.end)
         IN  [f EXCEPT !.i = 0, !.start = r.pos, !.cp = r.cp, !.found = r.found,
                       !.done = (r.found = 0),
                       !.len = IF r.found = 0 THEN f.len ELSE f.len + (r.found - m.N + 1)]
    ELSE [f EXCEPT !.i = 0, !.done = TRUE]

\* The inner loop run to its end; st is [f |-> frame, stats |-> table].
RECURSIVE NeedleFill(_, _)
NeedleFill(m, st) ==
  IF InnerLoopRuns(m, st.f.i, st.f.found)
    THEN NeedleFill(m, [f |-> NeedleNgramFrame(st.f),
                        stats |-> NeedleNgramStats(m, st.f, st.stats)])
    ELSE st

\* The do-while loop run to its end.
RECURSIVE NeedleRun(_, _, _)
NeedleRun(m, buf, st) ==
  IF st.f.done THEN [len |-> st.f.len, stats |-> st.stats]
  ELSE LET filled == NeedleFill(m, st)
       IN  NeedleRun(m, buf, [f |-> NeedleLoopEndFrame(m, buf, filled.f),
                              stats |-> filled.stats])

calculateNeedleStats(m, buf, data, size, stats) ==
  NeedleRun(m, buf, [f |-> NeedleEnter(m, buf, data, size), stats |-> stats])

\* ------------------------------------------------------------------------
\* calculateHaystackStatsAndMetric, one loop step at a time
\* ------------------------------------------------------------------------
\* ngram_storage[0 .. ngram_cnt) is kept as runs [h |-> hash, n |-> count] of
\* equal consecutive entries.
StorageAppend(storage, h) ==
  IF storage # << >> /\ storage[Len(storage)].h = h
    THEN [storage EXCEPT ![Len(storage)].n = @ + 1]
    ELSE Append(storage, [h |-> h, n |-> 1])

\* The entry with a heap buffer of size - N entries.
HaystackEnterTightBuffer(m, buf, data, size) ==
  LET r == read_code_points(m, ZeroWindow(m), buf, data, data + size)
  IN  [done |-> FALSE, start |-> r.pos, end |-> data + size, cp |-> r.cp,
       found |-> r.found, iter |-> m.N - 1, ngram_cnt |-> 0, ngram_storage |-> << >>,
       capacity |-> IF size > small_buffer_size THEN size - m.N ELSE small_buffer_size]

\* From the entry to the first evaluation of the inner loop condition;
\* capacity is the length of the buffer ngram_storage points to.
HaystackEnter(m, buf, data, size) ==
  LET r == read_code_points(m, ZeroWindow(m), buf, data, data + size)
  IN  [done |-> FALSE, start |-> r.pos, end |-> data + size, cp |-> r.cp,
       found |-> r.found, iter |-> m.N - 1, ngram_cnt |-> 0, ngram_storage |-> << >>,
       capacity |-> IF size > small_buffer_size THEN size ELSE small_buffer_size]

\* The test with >= 0 in place of > 0.
HaystackNgramDistanceGeq(m, f, stats, distance) ==
  IF Int16(Stat(stats, hash_functor(m, f.cp, f.iter))) >= 0
    THEN distance - 1
    ELSE distance + 1

\* if (static_cast<Int16>(ngram_stats[hash]) > 0) --distance; else ++distance;
HaystackNgramDistance(m, f, stats, distance) ==
  IF Int16(Stat(stats, hash_functor(m, f.cp, f.iter))) > 0
    THEN distance - 1
    ELSE distance + 1

\* --ngram_stats[hash]
HaystackNgramStats(m, f, stats) == AddStat(stats, hash_functor(m, f.cp, f.iter), -1)

\* ngram_storage[ngram_cnt++] = hash; ++iter
HaystackNgramFrame(m, f) ==
  [f EXCEPT !.iter = f.iter + 1, !.ngram_cnt = f.ngram_cnt + 1,
            !.ngram_storage = StorageAppend(f.ngram_storage, hash_functor(m, f.cp, f.iter))]

\* The loop going on while start <= end.
HaystackLoopEndFrameLeq(m, buf, f) ==
  IF f.start <= f.end
    THEN LET r == read_code_points(m, f.cp, buf, f.start, f.end)
         IN  [f EXCEPT !.iter = 0, !.start = r.pos, !.cp = r.cp, !.found = r.found,
                       !.done = (r.found = 0)]
    ELSE [f EXCEPT !.iter = 0, !.done = TRUE]

\* iter = 0; } while (start < end && (found = read_code_points(cp, start, end)));
HaystackLoopEndFrame(m, buf, f) ==
  IF f.start < f.end
    THEN LET r == read_code_points(m, f.cp, buf, f.start, f.end)
         IN  [f EXCEPT !.iter = 0, !.start = r.pos, !.cp = r.cp, !.found = r.found,
                       !.done = (r.found = 0)]
    ELSE [f EXCEPT !.iter = 0, !.done = TRUE]

\* for (size_t i = 0; i < ngram_cnt; ++i) ++ngram_stats[ngram_storage[i]];
RECURSIVE RestoreRuns(_, _)
RestoreRuns(storage, stats) ==
  IF storage = << >> THEN stats
  ELSE RestoreRuns(Tail(storage), AddStat(stats, Head(storage).h, Head(storage).n))

\* The restoring loop stopping one entry early.
HaystackRestoreShort(f, stats) ==
  IF f.ngram_storage = << >> THEN stats
  ELSE AddStat(RestoreRuns(f.ngram_storage, stats),
               f.ngram_storage[Len(f.ngram_storage)].h, -1)

HaystackRestore(f, stats) == RestoreRuns(f.ngram_storage, stats)

\* The inner loop run to its end; st is
\* [f |-> frame, stats |-> table, distance |-> distance].
RECURSIVE HaystackFill(_, _)
HaystackFill(m, st) ==
  IF InnerLoopRuns(m, st.f.iter, st.f.found)
    THEN HaystackFill(m, [f |-> HaystackNgramFrame(m, st.f),
                          stats |-> HaystackNgramStats(m, st.f, st.stats),
                          distance |-> HaystackNgramDistance(m, st.f, st.stats, st.distance)])
    ELSE st

\* The do-while loop run to its end and the table restored.
RECURSIVE HaystackRun(_, _, _)
HaystackRun(m, buf, st) ==
  IF st.f.done
    THEN [ngram_cnt |-> st.f.ngram_cnt, stats |-> HaystackRestore(st.f, st.stats),
          distance |-> st.distance]
  ELSE LET filled == HaystackFill(m, st)
       IN  HaystackRun(m, buf, [f |-> HaystackLoopEndFrame(m, buf, filled.f),
                                stats |-> filled.stats, distance |-> filled.distance])

calculateHaystackStatsAndMetric(m, buf, data, size, stats, distance) ==
  HaystackRun(m, buf, [f |-> HaystackEnter(m, buf, data, size), stats |-> stats,
                       distance |-> distance])

\* ------------------------------------------------------------------------
\* Float32 results
\* ------------------------------------------------------------------------
\* A result is the quotient of two size_t converted to float.  A residue
\* x >= 0 here is below 2^24 and converts exactly; a residue x < 0 stands for
\* 2^64 + x with |x| < 2^39 and converts to 2^64.  A value is kept as
\* n / d * 2^(64 * e), n / d in lowest terms.
RECURSIVE GCD(_, _)
GCD(a, b) == IF b = 0 THEN a ELSE GCD(b, a % b)

One == [n |-> 1, d |-> 1, e |-> 0]

Zero == [n |-> 0, d |-> 1, e |-> 0]

\* distance * 1.f / denominator
Quotient(distance, denominator) ==
  IF distance = 0 THEN Zero
  ELSE IF distance > 0 /\ denominator > 0
    THEN [n |-> distance \div GCD(distance, denominator),
          d |-> denominator \div GCD(distance, denominator), e |-> 0]
  ELSE IF distance < 0 /\ denominator < 0 THEN One
  ELSE IF distance > 0 THEN [n |-> distance, d |-> 1, e |-> -1]
  ELSE [n |-> 1, d |-> denominator, e |-> 1]

\* The quotient with the haystack count alone as denominator.
MetricHaystackOnly(distance, first_size, second_size) ==
  Quotient(distance, UMax(first_size, 1))

\* res = distance * 1.f / std::max(first_size + second_size, size_t(1))
Metric(distance, first_size, second_size) ==
  Quotient(distance, UMax(first_size + second_size, 1))

\* The test with < in place of <=.
FitsFastPathStrict(size) == ULess(size, max_string_size)

\* if (haystack_size <= max_string_size), if (data_size <= max_string_size)
FitsFastPath(size) == ULeq(size, max_string_size)

\* ------------------------------------------------------------------------
\* constant_constant as a function of its arguments
\* ------------------------------------------------------------------------
constant_constant(m, data, needle) ==
  LET nd == calculateNeedleStats(m, PaddedString(needle), 0, Size(needle), ZeroStats)
  IN  IF FitsFastPath(Size(data))
        THEN LET hs == calculateHaystackStatsAndMetric(m, PaddedString(data), 0, Size(data),
                                                       nd.stats, nd.len)
             IN  Metric(hs.distance, hs.ngram_cnt, nd.len)
        ELSE One

\* ------------------------------------------------------------------------
\* Inputs
\* ------------------------------------------------------------------------
\* Longest column, in rows.
MaxRows == 2

\* Length of the runs that make a string span one and two refills of the window.
MaxFill == 13

\* Bytes a PaddedPODArray may hold past its last element (never written).
PadBytes == {0, 65}

\* The letters the input strings are written with.
Letter == [a |-> 97, b |-> 98, c |-> 99, p |-> 112, A |-> 65, B |-> 66, P |-> 80]

a == Letter.a

b == Letter.b

c == Letter.c

p == Letter.p

A == Letter.A

B == Letter.B

P == Letter.P

Euro == << 226, 130, 172 >>
Alpha == << 206, 177 >>
Grin == << 240, 159, 152, 128 >>

\* Twenty bytes without a repeated neighbour: the bytes carried over a
\* refill differ from each other and from the bytes around them.
Stripes == Lit(<< a, b, c, p, A, B, P, a, b, c, p, A, B, P, a, b, c, p, A, B >>)

ASCIINeedles ==
  { << >>, Lit(<< a, b >>), Lit(<< a, b, a, b >>), Lit(<< p, b, a, b, b >>),
    Lit(<< a, B >>) \o Rep(A, 2 * MaxFill) \o Lit(<< b, P >>),
    Rep(a, MaxFill + 2), Stripes }

ASCIIHaystacks ==
  { << >>, Lit(<< a, b, a >>), Lit(<< a, b, a, b >>), Lit(<< a, b, b, b, A, B >>),
    Lit(<< A, b >>) \o Rep(a, MaxFill) \o Lit(<< B, p >>) }

UTF8Needles ==
  { << >>, Lit(<< a, b >>), Lit(Euro), Lit(Grin), Lit(<< a, b, c >>),
    Lit(<< A >> \o Alpha \o Euro \o << b >>),
    Lit(Alpha) \o Rep(a, MaxFill + 2) \o Lit(<< B, 226 >>) }

UTF8Haystacks ==
  { << >>, Lit(Euro), Lit(<< a, b, c >>), Lit(<< a >> \o Alpha \o Euro \o << B >>),
    Lit(Alpha) \o Rep(A, MaxFill + 2) \o Lit(<< b, 226 >>) }

Needles(m) == IF m.UTF8 THEN UTF8Needles ELSE ASCIINeedles

Haystacks(m) == IF m.UTF8 THEN UTF8Haystacks ELSE ASCIIHaystacks

\* A row of a ColumnString: the bytes s and t terminating zero bytes.  t = 0
\* with s empty is a row with offsets[i] = offsets[i - 1].
Row(s) == [s |-> s, t |-> 1]

EmptyRange == [s |-> << >>, t |-> 0]

Oversize == Rep(a, max_string_size + 1)

Largest == Rep(a, max_string_size)

ColumnRows(m) == {Row(s) : s \in Haystacks(m) \cup {Oversize}} \cup {EmptyRange}

Columns(m) == UNION {[1..k -> ColumnRows(m)] : k \in 1..MaxRows}

Plain == [N |-> 4, UTF8 |-> FALSE, CaseInsensitive |-> FALSE]

\* Runs at the limits of the 16-bit counters and of max_string_size.
LongInputs ==
  { [mode |-> Plain, entry |-> "cc", needle |-> Rep(a, max_string_size + 3),
     rows |-> << Row(Rep(a, 5)) >>],
    [mode |-> Plain, entry |-> "cc", needle |-> Rep(a, max_string_size + 2),
     rows |-> << Row(Rep(a, 5)) >>],
    [mode |-> Plain, entry |-> "cc", needle |-> Oversize, rows |-> << Row(Oversize) >>],
    [mode |-> Plain, entry |-> "cc", needle |-> Rep(a, 5), rows |-> << Row(Largest) >>],
    [mode |-> Plain, entry |-> "vc", needle |-> Lit(<< a, a, a, a, b >>),
     rows |-> << Row(Largest), Row(Oversize), Row(Rep(a, 4)) >>] }

Inputs ==
  LongInputs
  \cup {[mode |-> m, entry |-> "cc", needle |-> n, rows |-> << Row(s) >>] :
          m \in Modes, n \in ASCIINeedles \cup UTF8Needles,
          s \in ASCIIHaystacks \cup UTF8Haystacks \cup {Oversize}}
  \cup {[mode |-> m, entry |-> "cc", needle |-> n, rows |-> << Row(n) >>] :
          m \in Modes, n \in ASCIINeedles \cup UTF8Needles}
  \cup UNION {[mode : {m}, entry : {"vc"}, needle : Needles(m), rows : Columns(m)] :
                m \in Modes}

\* ColumnString::Chars of a column
RECURSIVE ColumnChars(_)
ColumnChars(rs) ==
  IF rs = << >> THEN << >>
  ELSE Head(rs).s \o Rep(0, Head(rs).t) \o ColumnChars(Tail(rs))

\* ColumnString::Offsets of a column: offsets[k] is one past the end of row k
RECURSIVE ColumnOffsets(_, _)
ColumnOffsets(rs, from) ==
  IF rs = << >> THEN << >>
  ELSE << from + Size(Head(rs).s) + Head(rs).t >>
       \o ColumnOffsets(Tail(rs), from + Size(Head(rs).s) + Head(rs).t)

\* ------------------------------------------------------------------------
\* State
\* ------------------------------------------------------------------------
VARIABLES
  mode,               \* template arguments N, UTF8, CaseInsensitive
  entry,              \* "cc": constant_constant, "vc": vector_constant
  needle,             \* the needle argument
  rows,               \* the column (vc) or the one haystack (cc)
  pad,                \* value of the bytes past the end of the column
  pc,                 \* "start", "needle", "rows", "haystack", "restore", "done"
  common_stats,       \* NgramStats common_stats
  needle_stats_size,  \* needle_stats_size (vc), second_size (cc)
  distance,
  prev_offset,
  i,                  \* row index of vector_constant
  res,                \* the results written so far
  nf,                 \* locals of calculateNeedleStats
  hf,                 \* locals of calculateHaystackStatsAndMetric
  needle_hashes,      \* history: bag of the hashes the needle pass counted
  post_needle_stats,  \* history: common_stats when calculateNeedleStats returned
  scored,             \* history: per row, whether the scorer was called
  needle_units,       \* history: code points the reader produced for the needle
  haystack_units,     \* history: code points the reader produced for the row
  last_call,          \* history: arguments and source reads of the last reader call
  peer                \* a second invocation, suspended between two of its steps

vars ==
  << mode, entry, needle, rows, pad, pc, common_stats, needle_stats_size, distance,
     prev_offset, i, res, nf, hf, needle_hashes, post_needle_stats, scored,
     needle_units, haystack_units, last_call, peer >>

inputs == << mode, entry, needle, rows, pad >>

data == [chars |-> ColumnChars(rows), pad |-> pad]

offsets == ColumnOffsets(rows, 0)

\* The length computed in signed arithmetic and cut off at 0.
haystack_sizeSaturating ==
  IF offsets[i + 1] - prev_offset - 1 < 0 THEN 0 ELSE offsets[i + 1] - prev_offset - 1

\* const size_t haystack_size = offsets[i] - prev_offset - 1;
haystack_size == offsets[i + 1] - prev_offset - 1

NoFrame == [done |-> TRUE]

NoCall == [pass |-> "none"]

\* The reader is called for pass on the window cp at pos of the size bytes at
\* from of buf.
ReaderCall(pass, buf, from, size, cp, pos) ==
  [pass |-> pass, data |-> from, size |-> size, pos |-> pos, cp |-> cp,
   reads |-> SourceReads(mode, buf, pos, from + size)]

\* No second invocation.
NoPeer == [pc |-> "none"]

\* An invocation on one of the inputs of S, before its first step.
Fresh(S) ==
  /\ \E in \in S :
       /\ mode = in.mode
       /\ entry = in.entry
       /\ needle = in.needle
       /\ rows = in.rows
       /\ pad \in IF in.entry = "cc" THEN {0} ELSE PadBytes
  /\ pc = "start"
  /\ common_stats = ZeroStats
  /\ needle_stats_size = 0
  /\ distance = 0
  /\ prev_offset = 0
  /\ i = 0
  /\ res = << >>
  /\ nf = NoFrame
  /\ hf = NoFrame
  /\ needle_hashes = EmptyBag
  /\ post_needle_stats = ZeroStats
  /\ scored = << >>
  /\ needle_units = 0
  /\ haystack_units = 0
  /\ last_call = NoCall

Init == Fresh(Inputs) /\ peer = NoPeer

\* Code points a reader call added to the window.
NewUnits(m, found) == found - (m.N - 1)

\* calculateNeedleStats returns f.len to the driver:
\* size_t distance = needle_stats_size; size_t prev_offset = 0; i = 0
NeedleReturn(f) ==
  /\ needle_stats_size' = f.len
  /\ distance' = f.len
  /\ prev_offset' = 0
  /\ i' = 0
  /\ post_needle_stats' = common_stats'
  /\ pc' = "rows"

\* memset(common_stats, 0, ...); needle.resize(...); call of calculateNeedleStats
Start(which) ==
  /\ pc = "start"
  /\ entry = which
  /\ common_stats' = ZeroStats
  /\ LET f == NeedleEnter(mode, PaddedString(needle), 0, Size(needle))
     IN  /\ nf' = f
         /\ needle_units' = IF Size(needle) < mode.N THEN 0 ELSE NewUnits(mode, f.found)
         /\ last_call' = IF Size(needle) < mode.N THEN last_call
                          ELSE ReaderCall("needle", PaddedString(needle), 0, Size(needle),
                                          ZeroWindow(mode), 0)
         /\ IF f.done
              THEN NeedleReturn(f)
              ELSE /\ pc' = "needle"
                   /\ UNCHANGED << needle_stats_size, distance, prev_offset, i,
                                   post_needle_stats >>
  /\ UNCHANGED << inputs, peer, res, hf, needle_hashes, scored, haystack_units >>

CCStart == Start("cc")

VCStart == Start("vc")

NeedleStep ==
  /\ pc = "needle"
  /\ InnerLoopRuns(mode, nf.i, nf.found)
  /\ common_stats' = NeedleNgramStats(mode, nf, common_stats)
  /\ nf' = NeedleNgramFrame(nf)
  /\ needle_hashes' = needle_hashes (+) SetToBag({hash_functor(mode, nf.cp, nf.i)})
  /\ UNCHANGED << inputs, peer, pc, needle_stats_size, distance, prev_offset, i, res, hf,
                  post_needle_stats, scored, needle_units, haystack_units, last_call >>

NeedleLoopEnd ==
  /\ pc = "needle"
  /\ ~ InnerLoopRuns(mode, nf.i, nf.found)
  /\ LET f == NeedleLoopEndFrame(mode, PaddedString(needle), nf)
     IN  /\ nf' = f
         /\ needle_units' = IF nf.start < nf.end
                              THEN needle_units + NewUnits(mode, f.found)
                              ELSE needle_units
         /\ last_call' = IF nf.start < nf.end
                            THEN ReaderCall("needle", PaddedString(needle), 0, Size(needle),
                                            nf.cp, nf.start)
                            ELSE last_call
         /\ common_stats' = common_stats
         /\ IF f.done
              THEN NeedleReturn(f)
              ELSE UNCHANGED << pc, needle_stats_size, distance, prev_offset, i,
                                post_needle_stats >>
  /\ UNCHANGED << inputs, peer, res, hf, needle_hashes, scored, haystack_units >>

\* Call of calculateHaystackStatsAndMetric on size bytes at from of buf.
HaystackCall(buf, from, size) ==
  /\ hf' = HaystackEnter(mode, buf, from, size)
  /\ haystack_units' = NewUnits(mode, hf'.found)
  /\ last_call' = ReaderCall("haystack", buf, from, size, ZeroWindow(mode), from)
  /\ scored' = Append(scored, TRUE)
  /\ pc' = "haystack"

VCRowScore ==
  /\ pc = "rows"
  /\ entry = "vc"
  /\ i < Len(offsets)
  /\ FitsFastPath(haystack_size)
  /\ HaystackCall(data, prev_offset, haystack_size)
  /\ UNCHANGED << inputs, peer, common_stats, needle_stats_size, distance, prev_offset, i, res,
                  nf, needle_hashes, post_needle_stats, needle_units >>

VCRowOversize ==
  /\ pc = "rows"
  /\ entry = "vc"
  /\ i < Len(offsets)
  /\ ~ FitsFastPath(haystack_size)
  /\ res' = Append(res, One)
  /\ distance' = needle_stats_size
  /\ prev_offset' = offsets[i + 1]
  /\ i' = i + 1
  /\ scored' = Append(scored, FALSE)
  /\ UNCHANGED << inputs, peer, pc, common_stats, needle_stats_size, nf, hf, needle_hashes,
                  post_needle_stats, needle_units, haystack_units, last_call >>

CCScore ==
  /\ pc = "rows"
  /\ entry = "cc"
  /\ FitsFastPath(Size(rows[1].s))
  /\ HaystackCall(PaddedString(rows[1].s), 0, Size(rows[1].s))
  /\ UNCHANGED << inputs, peer, common_stats, needle_stats_size, distance, prev_offset, i, res,
                  nf, needle_hashes, post_needle_stats, needle_units >>

CCOversize ==
  /\ pc = "rows"
  /\ entry = "cc"
  /\ ~ FitsFastPath(Size(rows[1].s))
  /\ res' = << One >>
  /\ scored' = Append(scored, FALSE)
  /\ pc' = "done"
  /\ UNCHANGED << inputs, peer, common_stats, needle_stats_size, distance, prev_offset, i, nf,
                  hf, needle_hashes, post_needle_stats, needle_units, haystack_units,
                  last_call >>

\* The buffer the scorer reads
HaystackBuf == IF entry = "cc" THEN PaddedString(rows[1].s) ELSE data

HaystackStep ==
  /\ pc = "haystack"
  /\ InnerLoopRuns(mode, hf.iter, hf.found)
  /\ distance' = HaystackNgramDistance(mode, hf, common_stats, distance)
  /\ common_stats' = HaystackNgramStats(mode, hf, common_stats)
  /\ hf' = HaystackNgramFrame(mode, hf)
  /\ UNCHANGED << inputs, peer, pc, needle_stats_size, prev_offset, i, res, nf, needle_hashes,
                  post_needle_stats, scored, needle_units, haystack_units, last_call >>

HaystackLoopEnd ==
  /\ pc = "haystack"
  /\ ~ InnerLoopRuns(mode, hf.iter, hf.found)
  /\ hf' = HaystackLoopEndFrame(mode, HaystackBuf, hf)
  /\ haystack_units' = IF hf.start < hf.end
                         THEN haystack_units + NewUnits(mode, hf'.found)
                         ELSE haystack_units
  /\ last_call' = IF hf.start < hf.end
                     THEN ReaderCall("haystack", HaystackBuf, hf.end - last_call.size,
                                     last_call.size, hf.cp, hf.start)
                     ELSE last_call
  /\ pc' = IF hf'.done THEN "restore" ELSE "haystack"
  /\ UNCHANGED << inputs, peer, common_stats, needle_stats_size, distance, prev_offset, i, res,
                  nf, needle_hashes, post_needle_stats, scored, needle_units >>

\* The distance of the row carried into the next row.
KeepDistance(stale, fresh) == stale

\* distance = needle_stats_size after a row of vector_constant
ResetDistance(stale, fresh) == fresh

\* The restoring loop and the return of the scorer, then
\* res[i] = ...; distance = needle_stats_size; prev_offset = offsets[i]; ++i
VCRowEnd ==
  /\ pc = "restore"
  /\ entry = "vc"
  /\ common_stats' = HaystackRestore(hf, common_stats)
  /\ res' = Append(res, Metric(distance, hf.ngram_cnt, needle_stats_size))
  /\ distance' = ResetDistance(distance, needle_stats_size)
  /\ prev_offset' = offsets[i + 1]
  /\ i' = i + 1
  /\ pc' = "rows"
  /\ UNCHANGED << inputs, peer, needle_stats_size, nf, hf, needle_hashes, post_needle_stats,
                  scored, needle_units, haystack_units, last_call >>

VCFinish ==
  /\ pc = "rows"
  /\ entry = "vc"
  /\ ~ (i < Len(offsets))
  /\ pc' = "done"
  /\ UNCHANGED << inputs, peer, common_stats, needle_stats_size, distance, prev_offset, i, res,
                  nf, hf, needle_hashes, post_needle_stats, scored, needle_units,
                  haystack_units, last_call >>

\* The restoring loop and the return of the scorer, then res = ...
CCReturn ==
  /\ pc = "restore"
  /\ entry = "cc"
  /\ common_stats' = HaystackRestore(hf, common_stats)
  /\ res' = << Metric(distance, hf.ngram_cnt, needle_stats_size) >>
  /\ pc' = "done"
  /\ UNCHANGED << inputs, peer, needle_stats_size, distance, prev_offset, i, nf, hf,
                  needle_hashes, post_needle_stats, scored, needle_units, haystack_units,
                  last_call >>

Next ==
  \/ CCStart
  \/ VCStart
  \/ NeedleStep
  \/ NeedleLoopEnd
  \/ VCRowScore
  \/ VCRowOversize
  \/ CCScore
  \/ CCOversize
  \/ HaystackStep
  \/ HaystackLoopEnd
  \/ VCRowEnd
  \/ VCFinish
  \/ CCReturn

Spec == Init /\ [][Next]_vars

\* ------------------------------------------------------------------------
\* vector_constant as a function of its arguments
\* ------------------------------------------------------------------------
\* The loop over the rows; st is
\* [i |-> row, prev_offset |-> offset, stats |-> table, res |-> results].
RECURSIVE VectorRows(_, _, _, _, _)
VectorRows(m, buf, offs, len, st) ==
  IF st.i < Len(offs)
    THEN LET size == offs[st.i + 1] - st.prev_offset - 1
         IN  IF FitsFastPath(size)
               THEN LET hs == calculateHaystackStatsAndMetric(m, buf, st.prev_offset, size,
                                                              st.stats, len)
                    IN  VectorRows(m, buf, offs, len,
                                   [i |-> st.i + 1, prev_offset |-> offs[st.i + 1],
                                    stats |-> hs.stats,
                                    res |-> Append(st.res, Metric(hs.distance, hs.ngram_cnt, len))])
               ELSE VectorRows(m, buf, offs, len,
                               [i |-> st.i + 1, prev_offset |-> offs[st.i + 1],
                                stats |-> st.stats, res |-> Append(st.res, One)])
    ELSE st.res

vector_constant(m, buf, offs, ndl) ==
  LET nd == calculateNeedleStats(m, PaddedString(ndl), 0, Size(ndl), ZeroStats)
  IN  VectorRows(m, buf, offs, nd.len,
                 [i |-> 0, prev_offset |-> 0, stats |-> nd.stats, res |-> << >>])

\* ------------------------------------------------------------------------
\* Two invocations running concurrently
\* ------------------------------------------------------------------------
\* Everything an invocation holds is an argument or a local of its own call
\* of constant_constant or vector_constant (common_stats, distance, the
\* window cp and the trail of the callee): a thread that is not running keeps
\* all of it.
Saved ==
  [mode |-> mode, entry |-> entry, needle |-> needle, rows |-> rows, pad |-> pad,
   pc |-> pc, common_stats |-> common_stats, needle_stats_size |-> needle_stats_size,
   distance |-> distance, prev_offset |-> prev_offset, i |-> i, res |-> res, nf |-> nf,
   hf |-> hf, needle_hashes |-> needle_hashes, post_needle_stats |-> post_needle_stats,
   scored |-> scored, needle_units |-> needle_units, haystack_units |-> haystack_units,
   last_call |-> last_call]

\* An invocation on the input in that has not made a step yet.
Suspended(in) ==
  [mode |-> in.mode, entry |-> in.entry, needle |-> in.needle, rows |-> in.rows, pad |-> 0,
   pc |-> "start", common_stats |-> ZeroStats, needle_stats_size |-> 0,
   distance |-> 0, prev_offset |-> 0, i |-> 0, res |-> << >>, nf |-> NoFrame,
   hf |-> NoFrame, needle_hashes |-> EmptyBag, post_needle_stats |-> ZeroStats,
   scored |-> << >>, needle_units |-> 0, haystack_units |-> 0,
   last_call |-> NoCall]

PairInputs ==
  { [mode |-> Plain, entry |-> "cc", needle |-> Lit(<< a, b, a, b >>),
     rows |-> << Row(Lit(<< a, b, b, b, A, B >>)) >>],
    [mode |-> Plain, entry |-> "cc", needle |-> Lit(<< p, b, a, b, b >>),
     rows |-> << Row(Oversize) >>],
    [mode |-> Plain, entry |-> "vc", needle |-> Lit(<< a, b, a, b >>),
     rows |-> << Row(Lit(<< a, b, a, b >>)), Row(Oversize) >>],
    [mode |-> [N |-> 4, UTF8 |-> FALSE, CaseInsensitive |-> TRUE], entry |-> "vc",
     needle |-> Lit(<< p, b, a, b, b >>),
     rows |-> << Row(Lit(<< a, b, b, b, A, B >>)), Row(Lit(<< a, b, a, b >>)) >>],
    [mode |-> [N |-> 3, UTF8 |-> TRUE, CaseInsensitive |-> FALSE], entry |-> "cc",
     needle |-> Lit(<< a, b, c >>),
     rows |-> << Row(Lit(<< a >> \o Alpha \o Euro \o << B >>)) >>] }

\* The table of a static NgramStats: the one the other invocation left.
StaticTable(own, last) == last

\* NgramStats common_stats is a local of the invocation: the thread that
\* resumes finds its own table.
ResumedTable(own, last) == own

\* The running invocation is suspended between two steps and the other resumes.
Switch ==
  /\ peer # NoPeer
  /\ peer' = Saved
  /\ mode' = peer.mode
  /\ entry' = peer.entry
  /\ needle' = peer.needle
  /\ rows' = peer.rows
  /\ pad' = peer.pad
  /\ pc' = peer.pc
  /\ common_stats' = ResumedTable(peer.common_stats, common_stats)
  /\ needle_stats_size' = peer.needle_stats_size
  /\ distance' = peer.distance
  /\ prev_offset' = peer.prev_offset
  /\ i' = peer.i
  /\ res' = peer.res
  /\ nf' = peer.nf
  /\ hf' = peer.hf
  /\ needle_hashes' = peer.needle_hashes
  /\ post_needle_stats' = peer.post_needle_stats
  /\ scored' = peer.scored
  /\ needle_units' = peer.needle_units
  /\ haystack_units' = peer.haystack_units
  /\ last_call' = peer.last_call

InitPair == Fresh(PairInputs) /\ pad = 0 /\ \E in \in PairInputs : peer = Suspended(in)

NextPair == Next \/ Switch

SpecPair == InitPair /\ [][NextPair]_vars

\* ------------------------------------------------------------------------
\* Properties
\* ------------------------------------------------------------------------
\* Longest string on which constant_constant is evaluated as a function
\* (longer runs are followed step by step only).
MaxEvaluated == 300

Evaluated(s) == Size(s) <= MaxEvaluated

Max0(x) == IF x < 0 THEN 0 ELSE x

Abs(x) == IF x < 0 THEN 0 - x ELSE x

\* Bytes of row k as vector_constant measures them.
RowSize(k) == Size(rows[k].s) + rows[k].t - 1

\* m_h: entries of ngram_storage equal to h
RECURSIVE TrailCount(_, _)
TrailCount(storage, h) ==
  IF storage = << >> THEN 0
  ELSE (IF Head(storage).h = h THEN Head(storage).n ELSE 0) + TrailCount(Tail(storage), h)

TrailHashes(storage) == {storage[k].h : k \in 1..Len(storage)}

\* Sum over the buckets of S of |n_h - m_h|
RECURSIVE SumAbsDiff(_, _, _)
SumAbsDiff(S, bag, storage) ==
  IF S = {} THEN 0
  ELSE LET h == CHOOSE x \in S : TRUE
       IN  Abs(CopiesIn(h, bag) - TrailCount(storage, h)) + SumAbsDiff(S \ {h}, bag, storage)

SymmetricDifference ==
  SumAbsDiff(BagToSet(needle_hashes) \cup TrailHashes(hf.ngram_storage),
             needle_hashes, hf.ngram_storage)

\* A counter of the trail went below zero while the row was scored.
TrailWrapped ==
  \E h \in TrailHashes(hf.ngram_storage) :
    TrailCount(hf.ngram_storage, h) > Stat(post_needle_stats, h)

InUnitInterval(r) == r.n = 0 \/ r.e = -1 \/ (r.e = 0 /\ r.n <= r.d)

\* C1: in vector_constant, whenever a row is about to be scored (and after
\* the last row), the table equals the table calculateNeedleStats left.
C1_TableRestored ==
  (entry = "vc" /\ pc = "rows") => common_stats = post_needle_stats

\* A next row follows a scored row whose counters wrapped and an oversize row.
C1_Witness ==
  /\ entry = "vc" /\ pc = "rows" /\ i < Len(offsets)
  /\ needle_stats_size > 0
  /\ \E j \in 1..i : scored[j]
  /\ \E j \in 1..i : ~ scored[j]
  /\ TrailWrapped

\* C2 as stated: for any needle, while a haystack is scored distance is the
\* sum over the buckets of |n_h - m_h|, the scorer having been started with
\* distance equal to the number of needle N-grams.
C2_AnyNeedle ==
  (pc \in {"haystack", "restore"} /\ needle_stats_size = BagCardinality(needle_hashes))
    => distance = SymmetricDifference

\* C2 amended: the same, for needles that put at most 32767 N-grams in a bucket.
C2_SymmetricDifference ==
  (/\ pc \in {"haystack", "restore"}
   /\ needle_stats_size = BagCardinality(needle_hashes)
   /\ \A h \in BagToSet(needle_hashes) : CopiesIn(h, needle_hashes) <= 32767)
    => distance = SymmetricDifference

\* A needle with 32767 N-grams in one bucket, two of them matched by the haystack.
C2_Witness ==
  /\ pc = "restore"
  /\ \E h \in BagToSet(needle_hashes) : CopiesIn(h, needle_hashes) = 32767
  /\ hf.ngram_cnt = 2
  /\ distance = 32765

\* C3: every result written lies in [0, 1], and when the scorer returns the
\* numerator is at most the denominator max(haystack count + needle count, 1)
\* as unsigned integers.
C3_Range ==
  /\ \A k \in 1..Len(res) : InUnitInterval(res[k])
  /\ pc = "restore" => ULeq(distance, UMax(hf.ngram_cnt + needle_stats_size, 1))

\* The needle count wrapped and a scored row brought distance round to 0.
C3_Witness ==
  /\ needle_stats_size < 0
  /\ \E k \in 1..Len(res) : scored[k] /\ res[k] = Zero /\ haystack_units >= mode.N

\* C4: constant_constant gives the same result with needle and haystack exchanged.
C4_Symmetry ==
  (/\ pc = "done" /\ entry = "cc"
   /\ Size(needle) <= max_string_size /\ Size(rows[1].s) <= max_string_size
   /\ Evaluated(needle) /\ Evaluated(rows[1].s))
    => res[1] = constant_constant(mode, needle, rows[1].s)

\* C5 as stated: a string with at least N code points is at distance 0 from itself.
C5_IdentityAnyLength ==
  (pc = "done" /\ entry = "cc" /\ needle = rows[1].s /\ needle_units >= mode.N)
    => res[1] = Zero

\* C5 amended: the same, for strings of at most max_string_size bytes.
C5_Identity ==
  (/\ pc = "done" /\ entry = "cc" /\ needle = rows[1].s /\ needle_units >= mode.N
   /\ Size(needle) <= max_string_size)
    => res[1] = Zero

\* A string that needs several refills, scored against itself.
C5_Witness ==
  /\ pc = "done" /\ entry = "cc" /\ needle = rows[1].s
  /\ needle_units > 2 * default_padding - mode.N
  /\ scored = << TRUE >>
  /\ res[1] = Zero

\* C6: both passes return max(0, units - N + 1), units being the byte length
\* in ASCII mode and the code points the reader produced in UTF-8 mode.
C6_NgramCount ==
  /\ pc \in {"rows", "haystack", "restore", "done"}
       => needle_stats_size
            = Max0((IF mode.UTF8 THEN needle_units ELSE Size(needle)) - mode.N + 1)
  /\ pc = "restore"
       => hf.ngram_cnt
            = Max0((IF mode.UTF8 THEN haystack_units ELSE RowSize(Len(scored)))
                   - mode.N + 1)

\* C7: each result of vector_constant for a row with offsets[k] > offsets[k - 1]
\* is the result of constant_constant on the needle and that row alone.
C7_BatchIndependence ==
  (entry = "vc" /\ pc = "rows" /\ Evaluated(needle))
    => \A k \in 1..Len(res) :
         (rows[k].t = 1 /\ (Evaluated(rows[k].s) \/ RowSize(k) > max_string_size))
           => res[k] = constant_constant(mode, rows[k].s, needle)

\* Two scored rows with N-grams, the second neither equal to nor disjoint from the needle.
C7_Witness ==
  /\ entry = "vc" /\ pc = "rows" /\ Len(res) = 2
  /\ scored = << TRUE, TRUE >>
  /\ rows[1] # rows[2]
  /\ Size(rows[1].s) >= mode.N
  /\ res[2] \notin {Zero, One}

\* C8: a haystack longer than max_string_size gets 1.0 without the scorer
\* having been called, in both drivers; every haystack up to max_string_size
\* bytes is scored.
C8_OversizeCutoff ==
  /\ \A k \in 1..Len(scored) :
       rows[k].t = 1 =>
         /\ RowSize(k) > max_string_size => ~ scored[k]
         /\ RowSize(k) <= max_string_size => scored[k]
         /\ (~ scored[k] /\ k <= Len(res)) => res[k] = One
  /\ pc \in {"haystack", "restore"}
       => (RowSize(Len(scored)) >= 0 /\ RowSize(Len(scored)) <= max_string_size)

\* A row of exactly max_string_size bytes was scored, one a byte longer was not.
C8_Witness ==
  /\ entry = "vc"
  /\ \E j \in 1..Len(res) :
       RowSize(j) = max_string_size /\ scored[j] /\ hf.ngram_cnt = max_string_size - mode.N + 1
  /\ \E k \in 1..Len(res) :
       RowSize(k) = max_string_size + 1 /\ ~ scored[k] /\ res[k] = One

Lowercase(s) ==
  [k \in 1..Len(s) |->
     [b |-> IF s[k].b \in 65..90 THEN s[k].b + 32 ELSE s[k].b, n |-> s[k].n]] \o << >>

IsASCII(s) == \A k \in 1..Len(s) : s[k].b < 128

\* C10: on ASCII strings ngramDistanceCaseInsensitive is ngramDistance of the
\* lowercased strings.
C10_CaseInsensitive ==
  (/\ pc = "done" /\ entry = "cc"
   /\ ~ mode.UTF8 /\ mode.CaseInsensitive
   /\ IsASCII(needle) /\ IsASCII(rows[1].s)
   /\ Evaluated(needle) /\ (Evaluated(rows[1].s) \/ Size(rows[1].s) > max_string_size))
    => res[1] = constant_constant([mode EXCEPT !.CaseInsensitive = FALSE],
                                  Lowercase(rows[1].s), Lowercase(needle))

\* Upper case in a needle of three refills and in a haystack of two, some
\* N-grams shared and some not.
C10_Witness ==
  /\ pc = "done" /\ entry = "cc"
  /\ ~ mode.UTF8 /\ mode.CaseInsensitive
  /\ Size(needle) > 2 * (default_padding - mode.N + 1)
  /\ Size(rows[1].s) > default_padding - mode.N + 1
  /\ needle # Lowercase(needle)
  /\ rows[1].s # Lowercase(rows[1].s)
  /\ res[1] \notin {Zero, One}

\* Sum of the entries of a table
RECURSIVE StatsSum(_)
StatsSum(stats) ==
  IF DOMAIN stats = {} THEN 0
  ELSE LET h == CHOOSE x \in DOMAIN stats : TRUE
       IN  stats[h] + StatsSum([k \in (DOMAIN stats) \ {h} |-> stats[k]] @@ << >>)

\* C11: when calculateNeedleStats has returned, the entries of the table sum
\* to the count it returned, no entry read as Int16 is negative, and for a
\* needle of fewer than N bytes the count is 0 and the table all zero.
C11_NeedlePostcondition ==
  pc \in {"rows", "haystack", "restore", "done"}
    => /\ StatsSum(post_needle_stats) = needle_stats_size
       /\ \A h \in DOMAIN post_needle_stats : Int16(post_needle_stats[h]) >= 0
       /\ Size(needle) < mode.N
            => (needle_stats_size = 0 /\ post_needle_stats = ZeroStats)

\* The results of the invocation st run alone.
SoloResult(st) ==
  IF st.entry = "cc"
    THEN << constant_constant(st.mode, st.rows[1].s, st.needle) >>
    ELSE vector_constant(st.mode, [chars |-> ColumnChars(st.rows), pad |-> st.pad],
                         ColumnOffsets(st.rows, 0), st.needle)

ResultsAsAlone(st) ==
  /\ Len(st.res) <= Len(SoloResult(st))
  /\ \A k \in 1..Len(st.res) : st.res[k] = SoloResult(st)[k]
  /\ st.pc = "done" => st.res = SoloResult(st)

\* C12: of two invocations whose steps interleave in any order, each writes
\* the results it writes when it runs alone.
C12_NoSharedState ==
  /\ ResultsAsAlone(Saved)
  /\ peer # NoPeer => ResultsAsAlone(peer)

\* Both invocations are inside the scorer, each has decremented a counter of
\* a bucket the other has decremented too, and one has already written a result.
C12_Witness ==
  /\ peer # NoPeer
  /\ pc = "restore" /\ peer.pc = "haystack"
  /\ Len(res) >= 1
  /\ common_stats # post_needle_stats
  /\ peer.common_stats # peer.post_needle_stats
  /\ TrailHashes(hf.ngram_storage) \cap TrailHashes(peer.hf.ngram_storage) # {}

\* The code point units of the size bytes at from of buf, one after the other.
RECURSIVE UTF8Units(_, _, _, _)
UTF8Units(m, buf, pos, end) ==
  IF pos < end
    THEN LET u == UTF8Unit(m, buf, pos, end)
         IN  << u.res >> \o UTF8Units(m, buf, pos + u.length, end)
    ELSE << >>

InputUnitCount(m, buf, from, size) ==
  IF m.UTF8 THEN Len(UTF8Units(m, buf, from, from + size)) ELSE size

\* Unit k of the input, k counted from 0, as the mode reads it.
InputUnit(m, buf, from, size, k) ==
  IF m.UTF8 THEN UTF8Units(m, buf, from, from + size)[k + 1]
  ELSE IF m.CaseInsensitive THEN tolower(Mem(buf, from + k))
  ELSE Mem(buf, from + k)

\* The N units hash_functor(cp + at) reads
HashedWindow(m, cp, at) == [k \in 1..m.N |-> cp[at + k]] \o << >>

\* The window of the input that starts at unit j
InputWindow(m, buf, from, size, j) ==
  [k \in 1..m.N |-> InputUnit(m, buf, from, size, j + k - 1)] \o << >>

\* The window about to be hashed is window number hashed of the input.
NextWindowInOrder(m, cp, at, buf, from, size, hashed) ==
  /\ hashed + m.N <= InputUnitCount(m, buf, from, size)
  /\ HashedWindow(m, cp, at) = InputWindow(m, buf, from, size, hashed)

\* C13: in both passes the windows handed to the hash are the contiguous
\* N-unit windows of the input, in order, each once and all of them; none
\* holds a unit of the zeroed window or of the bytes past the end.
C13_Windows ==
  /\ (pc = "needle" /\ InnerLoopRuns(mode, nf.i, nf.found))
       => NextWindowInOrder(mode, nf.cp, nf.i, PaddedString(needle), 0, Size(needle),
                            BagCardinality(needle_hashes))
  /\ (pc = "haystack" /\ InnerLoopRuns(mode, hf.iter, hf.found))
       => NextWindowInOrder(mode, hf.cp, hf.iter, HaystackBuf, last_call.data,
                            last_call.size, hf.ngram_cnt)
  /\ pc \in {"rows", "haystack", "restore", "done"}
       => BagCardinality(needle_hashes)
            = Max0(InputUnitCount(mode, PaddedString(needle), 0, Size(needle)) - mode.N + 1)
  /\ pc = "restore"
       => hf.ngram_cnt
            = Max0(InputUnitCount(mode, HaystackBuf, last_call.data, last_call.size)
                   - mode.N + 1)

\* Both passes went over a refill boundary on strings with multi-byte code
\* points and a truncated last one.
C13_Witness ==
  /\ pc = "restore" /\ mode.UTF8
  /\ hf.ngram_cnt > default_padding - mode.N + 1
  /\ BagCardinality(needle_hashes) > default_padding - mode.N + 1
  /\ last_call.size > hf.ngram_cnt + mode.N - 1

\* C14: every write ngram_storage[ngram_cnt++] has its index below the length
\* of the buffer, and the number of recorded hashes never exceeds the byte
\* length of the haystack.
C14_TrailBound ==
  /\ (pc = "haystack" /\ InnerLoopRuns(mode, hf.iter, hf.found))
       => (hf.ngram_cnt >= 0 /\ hf.ngram_cnt < hf.capacity)
  /\ pc \in {"haystack", "restore"}
       => /\ hf.ngram_cnt <= last_call.size
          /\ hf.ngram_cnt <= hf.capacity

\* A haystack on the heap buffer with every N-gram recorded.
C14_Witness ==
  /\ pc = "restore" /\ entry = "vc"
  /\ last_call.size > small_buffer_size
  /\ hf.capacity = last_call.size
  /\ hf.ngram_cnt = last_call.size - mode.N + 1

\* Source bytes a reader call on the size bytes at from may read.
ReadableSource(m, from, size) ==
  IF m.UTF8 THEN from .. (from + size - 1)
  ELSE from .. (from + size + default_padding - 1)

\* C15: every source byte a reader call reads lies in [data, data + size +
\* default_padding) for the ASCII reader and in [data, data + size) for the
\* UTF-8 reader, and every window index the reader or the hash touches lies
\* in [0, default_padding + N - 1).
C15_ReadBounds ==
  /\ last_call.pass # "none"
       => last_call.reads \subseteq ReadableSource(mode, last_call.data, last_call.size)
  /\ WindowAccesses(mode) \subseteq 0 .. (default_padding + mode.N - 2)
  /\ (pc = "needle" /\ InnerLoopRuns(mode, nf.i, nf.found))
       => HashAccesses(mode, nf.i) \subseteq 0 .. (default_padding + mode.N - 2)
  /\ (pc = "haystack" /\ InnerLoopRuns(mode, hf.iter, hf.found))
       => HashAccesses(mode, hf.iter) \subseteq 0 .. (default_padding + mode.N - 2)

\* The UTF-8 reader was called on a row of a column whose last byte declares
\* a sequence of three bytes, and read that byte.
C15_Witness ==
  /\ entry = "vc" /\ mode.UTF8
  /\ last_call.pass = "haystack"
  /\ last_call.size > 0
  /\ last_call.data + last_call.size - 1 \in last_call.reads
  /\ seqLength(Mem(data, last_call.data + last_call.size - 1)) = 3

\* Bytes of the pass still to be read, and windows of the fill still to be hashed.
PassRank(start, end, at, found) == << Max0(end - start), Max0(found - at) >>

\* A measure of the work an invocation has left: the needle pass (before,
\* inside, after), the rows to go, the place inside the row (before the
\* scorer, inside its loop, before the restoring loop), and the pass itself.
Rank ==
  (IF pc = "start" THEN << 2, 0, 0 >>
   ELSE IF pc = "needle" THEN << 1 >> \o PassRank(nf.start, nf.end, nf.i, nf.found)
   ELSE << 0, 0, 0 >>)
  \o
  (IF pc \in {"start", "needle", "done"} THEN << 0, 0, 0, 0 >>
   ELSE << (IF entry = "vc" THEN Len(offsets) - i ELSE 1) >>
        \o (IF pc = "rows" THEN << 3, 0, 0 >>
            ELSE IF pc = "haystack"
              THEN << 2 >> \o PassRank(hf.start, hf.end, hf.iter, hf.found)
            ELSE << 1, 0, 0 >>))

\* Lexicographic order on tuples of the same length
RECURSIVE LexLess(_, _)
LexLess(x, y) ==
  /\ x # << >>
  /\ \/ Head(x) < Head(y)
     \/ Head(x) = Head(y) /\ LexLess(Tail(x), Tail(y))

\* The last reader call, made short of the end, moved the position forward;
\* a pass that has returned left its loop with the position at or past the
\* end; the measure is a tuple of naturals.
C16_Progress ==
  /\ (last_call.pass = "needle" /\ last_call.pos < last_call.data + last_call.size)
       => nf.start > last_call.pos
  /\ (last_call.pass = "haystack" /\ last_call.pos < last_call.data + last_call.size)
       => hf.start > last_call.pos
  /\ (pc = "rows" /\ scored = << >> /\ Size(needle) >= mode.N) => ~ (nf.start < nf.end)
  /\ pc = "restore" => ~ (hf.start < hf.end)
  /\ \A k \in 1..Len(Rank) : Rank[k] >= 0

\* C16: the refill loops of both passes terminate on every input, malformed
\* UTF-8 included: every reader call made with pos < end advances pos, a
\* loop is left with pos at or past end, and every step of an invocation
\* lowers a well-founded measure, so no run has infinitely many steps.
C16_Terminates == [] C16_Progress /\ [][LexLess(Rank', Rank)]_vars

\* An invocation has returned whose needle and haystack both went through a
\* refill and end in a truncated three-byte sequence.
C16_Witness ==
  /\ pc = "done" /\ mode.UTF8 /\ scored = << TRUE >>
  /\ needle_units > default_padding - mode.N + 1
  /\ haystack_units > default_padding - mode.N + 1
  /\ seqLength(ByteAt(needle, Size(needle) - 1)) = 3
  /\ seqLength(ByteAt(rows[1].s, Size(rows[1].s) - 1)) = 3

\* Row k of the column has offsets[k] equal to the offset before it.
EmptyRangeAt(k) == offsets[k] = (IF k = 1 THEN 0 ELSE offsets[k - 1])

\* C17: in vector_constant a row with offsets[i] = prev_offset gets 1.0 when
\* the needle is non-empty, the next row starts at prev_offset = offsets[i],
\* and a row that follows such a row gets the result of constant_constant
\* on it.
C17_EmptyRange ==
  entry = "vc" =>
    /\ \A k \in 1..Len(res) : (EmptyRangeAt(k) /\ needle # << >>) => res[k] = One
    /\ pc = "rows" => prev_offset = (IF i = 0 THEN 0 ELSE offsets[i])
    /\ \A k \in 2..Len(res) :
         (/\ EmptyRangeAt(k - 1) /\ rows[k].t = 1 /\ Evaluated(needle)
          /\ (Evaluated(rows[k].s) \/ RowSize(k) > max_string_size))
           => res[k] = constant_constant(mode, rows[k].s, needle)

\* A row with offsets[1] = 0 was given 1.0 for a needle without an N-gram,
\* and the row after it was scored.
C17_Witness ==
  /\ entry = "vc" /\ Len(res) = 2
  /\ EmptyRangeAt(1) /\ res[1] = One
  /\ needle # << >> /\ needle_stats_size = 0
  /\ scored = << FALSE, TRUE >>
  /\ hf.ngram_cnt > 0

\* C18 as stated: with an empty needle every non-empty haystack of at most
\* max_string_size bytes gets 1.0.
C18_AnyNonEmptyHaystack ==
  (/\ pc = "done" /\ entry = "cc" /\ needle = << >>
   /\ rows[1].s # << >> /\ Size(rows[1].s) <= max_string_size)
    => res[1] = One

\* C18 amended: with an empty needle the needle count is 0, the scorer
\* returns with distance equal to the haystack count, and the result is 1.0
\* for a haystack with at least N units and 0.0 for one with fewer.
C18_EmptyNeedle ==
  needle = << >> =>
    /\ pc \in {"rows", "haystack", "restore", "done"} => needle_stats_size = 0
    /\ pc = "restore" => distance = hf.ngram_cnt
    /\ (pc = "done" /\ entry = "cc" /\ scored = << TRUE >>)
         => res[1] = (IF haystack_units >= mode.N THEN One ELSE Zero)

\* An empty needle and a haystack in which one N-gram occurs several times.
C18_Witness ==
  /\ pc = "done" /\ entry = "cc" /\ needle = << >>
  /\ scored = << TRUE >> /\ res[1] = One
  /\ \E h \in TrailHashes(hf.ngram_storage) : TrailCount(hf.ngram_storage, h) >= 2

\* The window the last reader call left, and the units it read before that call.
WindowAfterCall == IF last_call.pass = "needle" THEN nf.cp ELSE hf.cp

FoundAfterCall == IF last_call.pass = "needle" THEN nf.found ELSE hf.found

UnitsBeforeCall ==
  (IF last_call.pass = "needle" THEN needle_units ELSE haystack_units)
    - NewUnits(mode, FoundAfterCall)

\* The last reader call was a refill.
Refilled == last_call.pass # "none" /\ last_call.pos > last_call.data

\* The units from window[N - 1] up to found are the next units of the input.
NewUnitsInPlace ==
  \A j \in 0..(NewUnits(mode, FoundAfterCall) - 1) :
    WindowAfterCall[mode.N + j]
      = InputUnit(mode,
                  IF last_call.pass = "needle" THEN PaddedString(needle) ELSE HaystackBuf,
                  last_call.data, last_call.size, UnitsBeforeCall + j)

\* C19 as stated: after a refill the first N - 1 units of the window are
\* those that were at window[PAD] and above before it, and the reader has
\* produced up to PAD new units from window[N - 1] on.
C19_CarryFromPadding ==
  Refilled =>
    /\ \A k \in 0..(mode.N - 2) :
         WindowAfterCall[k + 1] = last_call.cp[default_padding + k + 1]
    /\ NewUnits(mode, FoundAfterCall) \in 1..default_padding
    /\ NewUnitsInPlace

\* C19 amended: after a refill the first N - 1 units of the window are
\* those that were at window[PAD - N + 1 .. PAD - 1] before it, and the
\* reader has produced between 1 and PAD - N + 1 new units from window[N - 1]
\* on, in both readers.
C19_Carry ==
  Refilled =>
    /\ \A k \in 0..(mode.N - 2) :
         WindowAfterCall[k + 1] = last_call.cp[default_padding - mode.N + 1 + k + 1]
    /\ NewUnits(mode, FoundAfterCall) \in 1..(default_padding - mode.N + 1)
    /\ NewUnitsInPlace

\* A refill that carried units different from each other and did not fill
\* the window to its end.
C19_Witness ==
  /\ Refilled
  /\ WindowAfterCall[1] # WindowAfterCall[2]
  /\ NewUnits(mode, FoundAfterCall) < default_padding - mode.N + 1
  /\ pc = "done"

====
